---------------------------- MODULE Spec2Model ----------------------------
(***************************************************************************)
(* The RanorTV launcher (ranson21/ranortv-os, launcher/src): the catalog   *)
(* store (load, builtin merge, derived views), the launch dispatcher, the  *)
(* sandbox spawn and the navigation handlers, as one state machine.        *)
(*                                                                         *)
(* main.rs holds the wired binary; loader.rs, actions.rs, navigation.rs    *)
(* and models.rs hold the same functions split into modules.  The pure     *)
(* operators below follow the module files, the actions follow the         *)
(* callbacks registered in main().                                         *)
(***************************************************************************)
EXTENDS Integers, Sequences, FiniteSets, TLC

\* ------------------------------------------------------------------ bounds

\* Number of subdirectories the apps directory holds at most (CatalogSpec).
MaxDirs == 2

\* Number of distinct RandomState seeds a process may draw for state.apps.
NumSeeds == 2

\* Number of sandboxed children that can be alive at once: with that many
\* running the process limit is reached and a further fork fails.
MaxChildren == 1

\* "take(6)" of update_app_lists.
FeaturedCap == 6

\* ------------------------------------------------------------- app records

\* String paths are kept as <<head, tail>> so that starts_with can be decided.
BuiltinScheme == "builtin://"

BuiltinPath(tag) == <<BuiltinScheme, tag>>

ExternalPath(rest) == <<"/apps/", rest>>

StartsWith(path, prefix) == path[1] = prefix

\* Option<String>: None is <<>>, Some(s) is <<s>>.
None == <<>>

Some(v) == <<v>>

MkApp(id, name, description, icon_path, executable_path, installed, version, category) ==
    [id |-> id, name |-> name, description |-> description,
     icon_path |-> icon_path, executable_path |-> executable_path,
     installed |-> installed, version |-> version, category |-> category]

\* The vec! of add_builtin_apps, in source order.
BuiltinApps ==
    << MkApp("tv", "TV", "Live TV and streaming", Some("icons/tv.png"),
             BuiltinPath("tv"), TRUE, "1.0.0", "Entertainment"),
       MkApp("movies", "Movies", "Movie library", Some("icons/movies.png"),
             BuiltinPath("movies"), TRUE, "1.0.0", "Entertainment"),
       MkApp("music", "Music", "Music streaming", Some("icons/music.png"),
             BuiltinPath("music"), TRUE, "1.0.0", "Entertainment"),
       MkApp("photos", "Photos", "Photo viewer", Some("icons/photos.png"),
             BuiltinPath("photos"), TRUE, "1.0.0", "Media"),
       MkApp("settings", "Settings", "System settings", Some("icons/settings.png"),
             BuiltinPath("settings"), TRUE, "1.0.0", "System"),
       MkApp("app_store", "App Store", "Download apps", Some("icons/app_store.png"),
             BuiltinPath("app_store"), TRUE, "1.0.0", "System") >>

\* The vec! of the store-refresh callback, in source order.
MockApps ==
    << MkApp("spotify", "Spotify", "Music streaming service", None,
             ExternalPath("spotify/spotify"), FALSE, "1.0.0", "Music"),
       MkApp("youtube", "YouTube", "Video streaming platform", None,
             ExternalPath("youtube/youtube"), FALSE, "2.1.0", "Entertainment") >>

Range(s) == { s[i] : i \in 1..Len(s) }

BuiltinIds == { BuiltinApps[i].id : i \in 1..Len(BuiltinApps) }

BuiltinDef(id) == CHOOSE a \in Range(BuiltinApps) : a.id = id

MockIds == { MockApps[i].id : i \in 1..Len(MockApps) }

\* --------------------------------------------------- the apps directory

\* An app.json that deserializes: every non-Option field of App is present.
Descriptor(id, installed, executable_path) ==
    [id |-> id, name |-> "Scanned", description |-> "Found on disk",
     executable_path |-> executable_path, installed |-> installed,
     version |-> "0.1.0", category |-> "Scanned"]

\* One entry of read_dir: is it a directory, does it hold app.json, can the
\* file be read, is it JSON, and the JSON object's fields.
DirEntry(is_dir, exists, readable, syntax_ok, fields) ==
    [is_dir |-> is_dir, exists |-> exists, readable |-> readable,
     syntax_ok |-> syntax_ok, fields |-> fields]

ValidEntry(id, installed, executable_path) ==
    DirEntry(TRUE, TRUE, TRUE, TRUE, Descriptor(id, installed, executable_path))

PlainFile == DirEntry(FALSE, FALSE, FALSE, FALSE, [version |-> "0"])

NoDescriptor == DirEntry(TRUE, FALSE, FALSE, FALSE, [version |-> "0"])

UnreadableDescriptor == DirEntry(TRUE, TRUE, FALSE, FALSE, [version |-> "0"])

GarbageDescriptor == DirEntry(TRUE, TRUE, TRUE, FALSE, [version |-> "0"])

\* JSON that parses but lacks the required field "id".
IncompleteDescriptor ==
    DirEntry(TRUE, TRUE, TRUE, TRUE,
             [name |-> "Scanned", description |-> "Found on disk",
              executable_path |-> ExternalPath("x/x"), installed |-> TRUE,
              version |-> "0.1.0", category |-> "Scanned"])

InvalidEntries ==
    { PlainFile, NoDescriptor, UnreadableDescriptor, GarbageDescriptor,
      IncompleteDescriptor }

\* Descriptors found on disk: a third-party app "x" with every kind of launch
\* target, an installed "spotify", and a descriptor squatting on each builtin
\* identifier.
ValidEntries ==
    { ValidEntry("x", i, p) : i \in BOOLEAN,
        p \in { ExternalPath("x/x"), BuiltinPath("tv"), BuiltinPath("bogus") } }
    \cup { ValidEntry("spotify", TRUE, ExternalPath("spotify/spotify-1")) }
    \cup { ValidEntry(b, FALSE, ExternalPath("rogue")) : b \in BuiltinIds }

DirEntries == InvalidEntries \cup ValidEntries

SeqsUpTo(S, n) == UNION { [1..k -> S] : k \in 0..n }

Directories == SeqsUpTo(DirEntries, MaxDirs)

\* The populated directories the full launcher is explored on (besides a
\* missing /apps).
NavDirectories ==
    { << ValidEntry("x", TRUE, BuiltinPath("tv")), GarbageDescriptor >>,
      << ValidEntry("spotify", TRUE, ExternalPath("spotify/spotify-1")),
         ValidEntry("x", FALSE, BuiltinPath("bogus")) >> }

\* ------------------------------------------------ HashMap<String, App>

\* The map is a function from identifier to record.  HashMap::new() draws a
\* RandomState per process; values() walks the buckets, so the enumeration
\* order depends on that seed and on the table size, not on insertion order.
\* The hasher is std's, outside the repository: it is modelled as a family of
\* injective hashes indexed by the seed.
EmptyMap == [k \in {} |-> k]

KeyCodes ==
    "tv" :> 1 @@ "movies" :> 2 @@ "music" :> 3 @@ "photos" :> 4 @@
    "settings" :> 5 @@ "app_store" :> 6 @@ "spotify" :> 7 @@
    "youtube" :> 8 @@ "x" :> 9

KeyCode(k) == KeyCodes[k]

Hash(s, k) == ((s + 2) * KeyCode(k) + 5 * s) % 13

\* hashbrown's table sizes: 4 buckets up to 3 items, 8 up to 7, 16 up to 14.
Buckets(n) == IF n <= 3 THEN 4 ELSE IF n <= 7 THEN 8 ELSE 16

\* The place of every key in a table of every size, for every seed: the
\* bucket first, the full hash within a bucket.
BucketRanks ==
    [s \in 0..(NumSeeds - 1) |->
        [k \in DOMAIN KeyCodes |->
            [b \in {4, 8, 16} |-> (Hash(s, k) % b) * 13 + Hash(s, k)]]]

BucketRank(s, k, n) == BucketRanks[s][k][Buckets(n)]

\* Mutant: a key already in the map keeps its record.
Insert_KeepExisting(m, app) ==
    [k \in (DOMAIN m) \cup {app.id} |-> IF k \in DOMAIN m THEN m[k] ELSE app]

\* apps.insert(app.id.clone(), app)
Insert(m, app) ==
    [k \in (DOMAIN m) \cup {app.id} |-> IF k = app.id THEN app ELSE m[k]]

\* The buckets in index order: the occupied bucket of least rank first.
RECURSIVE Walk(_, _, _, _)
Walk(m, keys, s, n) ==
    IF keys = {} THEN << >>
    ELSE LET k == CHOOSE c \in keys : \A j \in keys : BucketRank(s, c, n) <= BucketRank(s, j, n)
         IN  << m[k] >> \o Walk(m, keys \ {k}, s, n)

\* apps.values(), as the sequence the iterator yields.
Values(m, s) == Walk(m, DOMAIN m, s, Cardinality(DOMAIN m))

\* ------------------------------------------------------------ loader.rs

RequiredFields ==
    { "id", "name", "description", "executable_path", "installed", "version",
      "category" }

\* serde_json::from_str::<App>: an error unless the text is JSON holding every
\* non-Option field; a missing icon_path deserializes to None.
FromStr(e) ==
    IF e.syntax_ok /\ RequiredFields \subseteq DOMAIN e.fields
    THEN Some(MkApp(e.fields.id, e.fields.name, e.fields.description,
                    IF "icon_path" \in DOMAIN e.fields
                    THEN Some(e.fields.icon_path) ELSE None,
                    e.fields.executable_path, e.fields.installed,
                    e.fields.version, e.fields.category))
    ELSE None

LoadAppFromDirectory(e) ==
    IF e.exists
    THEN IF e.readable THEN FromStr(e) ELSE None
    ELSE None

RECURSIVE ScanEntries(_, _)
ScanEntries(m, entries) ==
    IF entries = << >> THEN m
    ELSE LET e == Head(entries)
             found == IF e.is_dir THEN LoadAppFromDirectory(e) ELSE None
         IN  ScanEntries(IF found # None THEN Insert(m, found[1]) ELSE m,
                         Tail(entries))

\* Mutant: the Err of read_dir is not checked.
LoadInstalledApps_IgnoreErr(m, readable, entries) == ScanEntries(m, entries)

LoadInstalledApps(m, readable, entries) ==
    IF readable THEN ScanEntries(m, entries) ELSE m

RECURSIVE InsertAll(_, _)
InsertAll(m, list) ==
    IF list = << >> THEN m ELSE InsertAll(Insert(m, Head(list)), Tail(list))

RECURSIVE InsertMissing(_, _)
InsertMissing(m, list) ==
    IF list = << >> THEN m
    ELSE InsertMissing(IF Head(list).id \in DOMAIN m THEN m ELSE Insert(m, Head(list)),
                       Tail(list))

\* Mutant: entry(id).or_insert(app) in place of insert(id, app).
AddBuiltinApps_KeepScanned(m) == InsertMissing(m, BuiltinApps)

\* Mutant: the last builtin definition is not inserted.
AddBuiltinApps_SkipsLast(m) == InsertAll(m, SubSeq(BuiltinApps, 1, Len(BuiltinApps) - 1))

AddBuiltinApps(m) == InsertAll(m, BuiltinApps)

RECURSIVE Filter(_, _)
Filter(seq, want) ==
    IF seq = << >> THEN << >>
    ELSE IF Head(seq).installed = want
         THEN << Head(seq) >> \o Filter(Tail(seq), want)
         ELSE Filter(Tail(seq), want)

InstalledOf(vals) == Filter(vals, TRUE)

\* Mutant: the store view forgets the negation of the flag.
StoreOf_SameFlag(vals) == Filter(vals, TRUE)

StoreOf(vals) == Filter(vals, FALSE)

Take(seq, n) == SubSeq(seq, 1, IF Len(seq) < n THEN Len(seq) ELSE n)

\* Mutant: the featured view skips the first installed record.
FeaturedOf_SkipFirst(installed) == Take(Tail(installed), FeaturedCap)

FeaturedOf(installed) == Take(installed, FeaturedCap)

\* update_app_lists: the three views, from one enumeration of the map.
UpdateAppLists(m, s) ==
    LET inst == InstalledOf(Values(m, s))
    IN  [installed_apps |-> inst,
         store_apps |-> StoreOf(Values(m, s)),
         featured_apps |-> FeaturedOf(inst)]

LoadApps(readable, entries) ==
    AddBuiltinApps(LoadInstalledApps(EmptyMap, readable, entries))

\* apps_to_slint_model: the AppItem rows handed to the window.
\* Mutant: the row's id is taken from the record's name.
AppItem_NameAsId(app) ==
    [id |-> app.name, name |-> app.name, description |-> app.description,
     icon_path |-> IF app.icon_path = None THEN "" ELSE app.icon_path[1],
     category |-> app.category]

AppItem(app) ==
    [id |-> app.id, name |-> app.name, description |-> app.description,
     icon_path |-> IF app.icon_path = None THEN "" ELSE app.icon_path[1],
     category |-> app.category]

AppsToSlintModel(list) == [i \in 1..Len(list) |-> AppItem(list[i])]

\* ---------------------------------------------------------------- state

VARIABLES
    directory,       \* entries of /apps, in read_dir order
    dir_readable,    \* read_dir(/apps) is Ok
    seed,            \* RandomState of state.apps
    phase,           \* "boot" before main() built the state, then "ready"
    apps,            \* state.apps
    featured_apps,   \* state.featured_apps
    installed_apps,  \* state.installed_apps
    store_apps,      \* state.store_apps
    ui_featured,     \* the window's featured_apps model
    ui_installed,    \* the window's installed_apps model
    ui_store,        \* the window's store_apps model
    current_tab,     \* the window's current_tab property
    featured_focus,  \* the window's featured_focus property
    apps_focus,      \* the window's apps_focus property
    store_focus,     \* the window's store_focus property
    last_event,      \* the callback that ran last
    calls,           \* identifiers passed to launch_app by the last callback
    effects,         \* what the last callback printed or spawned
    borrows,         \* the accesses the last callback made to the state cell
    children         \* sandboxed children spawned and still running

catalog_vars == << apps, featured_apps, installed_apps, store_apps >>

ui_vars == << ui_featured, ui_installed, ui_store >>

nav_vars == << current_tab, featured_focus, apps_focus, store_focus >>

env_vars == << directory, dir_readable, seed >>

out_vars == << last_event, calls, effects, borrows >>

vars == << env_vars, phase, catalog_vars, ui_vars, nav_vars, out_vars, children >>

Seeds == 0..(NumSeeds - 1)

\* main's initialisation block: state.borrow(), the three set_*_apps, and the
\* Ref dropped at the end of the block.
StartupAccesses == << "borrow", "drop" >>

\* on_launch_app: state_clone.borrow(), launch_app, the Ref dropped when the
\* closure returns.
LaunchCallbackAccesses == << "borrow", "drop" >>

\* on_refresh_store: state_clone.borrow_mut() held over the inserts,
\* update_app_lists and set_store_apps, dropped when the closure returns.
RefreshAccesses == << "borrow_mut", "drop_mut" >>

\* Mutant: on_navigate holds a mutable borrow while it invokes the launch
\* callback.
SelectAccesses_HoldsMut(dispatches) ==
    << "borrow_mut" >> \o
    ( IF dispatches THEN LaunchCallbackAccesses ELSE << >> ) \o
    << "drop_mut" >>

\* on_navigate reads the window only; its select arm runs the launch callback
\* through invoke_launch_app when the focused row exists.
SelectAccesses(dispatches) ==
    IF dispatches THEN LaunchCallbackAccesses ELSE << >>

\* Process start: nothing constructed yet; the window's int properties hold
\* their defaults.
Boot ==
    /\ seed \in Seeds
    /\ phase = "boot"
    /\ apps = EmptyMap
    /\ featured_apps = << >>
    /\ installed_apps = << >>
    /\ store_apps = << >>
    /\ ui_featured = << >>
    /\ ui_installed = << >>
    /\ ui_store = << >>
    /\ current_tab = 0
    /\ featured_focus = 0
    /\ apps_focus = 0
    /\ store_focus = 0
    /\ last_event = "none"
    /\ calls = << >>
    /\ effects = << >>
    /\ borrows = << >>
    /\ children = 0

Init ==
    /\ \/ dir_readable = TRUE /\ directory \in NavDirectories
       \/ dir_readable = FALSE /\ directory = << >>
    /\ Boot

CatalogInit ==
    /\ directory \in Directories
    /\ dir_readable \in BOOLEAN
    /\ Boot

\* LauncherState::default() and the initial set_*_apps of main().
Startup ==
    /\ phase = "boot"
    /\ \E m \in { LoadApps(dir_readable, directory) } :
       \E v \in { UpdateAppLists(m, seed) } :
           /\ apps' = m
           /\ installed_apps' = v.installed_apps
           /\ store_apps' = v.store_apps
           /\ featured_apps' = v.featured_apps
           /\ ui_featured' = AppsToSlintModel(v.featured_apps)
           /\ ui_installed' = AppsToSlintModel(v.installed_apps)
           /\ ui_store' = AppsToSlintModel(v.store_apps)
    /\ phase' = "ready"
    /\ last_event' = "startup"
    /\ calls' = << >>
    /\ effects' = << >>
    /\ borrows' = StartupAccesses
    /\ UNCHANGED << env_vars, nav_vars, children >>

\* The on_refresh_store callback: upsert the mock records, recompute the
\* views, hand the store view (only) to the window.
\* Mutant: a refresh that brings nothing new empties the window's store view.
RefreshStore_ClearsWhenNothingNew ==
    /\ phase = "ready"
    /\ \E m \in { InsertAll(apps, MockApps) } :
       \E v \in { UpdateAppLists(m, seed) } :
           /\ apps' = m
           /\ installed_apps' = v.installed_apps
           /\ store_apps' = v.store_apps
           /\ featured_apps' = v.featured_apps
           /\ ui_store' = IF m = apps THEN << >> ELSE AppsToSlintModel(v.store_apps)
    /\ last_event' = "refresh"
    /\ calls' = << >>
    /\ effects' = << >>
    /\ borrows' = RefreshAccesses
    /\ UNCHANGED << env_vars, phase, ui_featured, ui_installed, nav_vars, children >>

\* Mutant: the views are extended with the new enumeration, not rebuilt.
RefreshStore_AppendsViews ==
    /\ phase = "ready"
    /\ \E m \in { InsertAll(apps, MockApps) } :
       \E v \in { UpdateAppLists(m, seed) } :
           /\ apps' = m
           /\ installed_apps' = installed_apps \o v.installed_apps
           /\ store_apps' = store_apps \o v.store_apps
           /\ featured_apps' = v.featured_apps
           /\ ui_store' = AppsToSlintModel(store_apps \o v.store_apps)
    /\ last_event' = "refresh"
    /\ calls' = << >>
    /\ effects' = << >>
    /\ borrows' = RefreshAccesses
    /\ UNCHANGED << env_vars, phase, ui_featured, ui_installed, nav_vars, children >>

RefreshStore ==
    /\ phase = "ready"
    /\ \E m \in { InsertAll(apps, MockApps) } :
       \E v \in { UpdateAppLists(m, seed) } :
           /\ apps' = m
           /\ installed_apps' = v.installed_apps
           /\ store_apps' = v.store_apps
           /\ featured_apps' = v.featured_apps
           /\ ui_store' = AppsToSlintModel(v.store_apps)
    /\ last_event' = "refresh"
    /\ calls' = << >>
    /\ effects' = << >>
    /\ borrows' = RefreshAccesses
    /\ UNCHANGED << env_vars, phase, ui_featured, ui_installed, nav_vars, children >>

CatalogNext == Startup \/ RefreshStore

CatalogSpec == CatalogInit /\ [][CatalogNext]_vars

\* ----------------------------------------------------------- actions.rs

\* What a dispatch does that the outside can see: a line printed, a handler
\* arm taken, a process spawn attempted.
Effect(kind, name, path, ok, unshare_present, target_exists) ==
    [kind |-> kind, name |-> name, path |-> path, ok |-> ok,
     unshare_present |-> unshare_present, target_exists |-> target_exists]

Printed(kind, name) == Effect(kind, name, << >>, TRUE, FALSE, FALSE)

\* match path { "builtin://tv" => .., .., _ => .. }
\* Mutant: an unrecognized tag is dropped without a word.
HandleBuiltinApp_Silent(path) ==
    IF path[2] \in { "tv", "movies", "music", "photos", "settings", "app_store" }
    THEN << Printed("handler", path[2]) >>
    ELSE << >>

HandleBuiltinApp(path) ==
    CASE path = BuiltinPath("tv") -> << Printed("handler", "tv") >>
      [] path = BuiltinPath("movies") -> << Printed("handler", "movies") >>
      [] path = BuiltinPath("music") -> << Printed("handler", "music") >>
      [] path = BuiltinPath("photos") -> << Printed("handler", "photos") >>
      [] path = BuiltinPath("settings") -> << Printed("handler", "settings") >>
      [] path = BuiltinPath("app_store") -> << Printed("handler", "app_store") >>
      [] OTHER -> << Effect("unknown_builtin", "", path, TRUE, FALSE, FALSE) >>

\* What the operating system offers one spawn: is unshare installed, can a
\* process be forked, does the target executable exist.
SpawnEnv(unshare_present, can_fork, target_exists) ==
    [unshare_present |-> unshare_present, can_fork |-> can_fork,
     target_exists |-> target_exists]

\* Mutant: the result of spawn is not looked at.
LaunchSandboxedApp_IgnoresErr(app, env) ==
    << Effect("spawn", app.name, app.executable_path, TRUE,
              env.unshare_present, env.target_exists),
       Printed("launched", app.name) >>

\* Command::new("unshare") ... .spawn(): Ok as soon as the unshare child is
\* created, whatever becomes of the target inside it; Err when unshare itself
\* cannot be started.
LaunchSandboxedApp(app, env) ==
    << Effect("spawn", app.name, app.executable_path,
              env.unshare_present /\ env.can_fork,
              env.unshare_present, env.target_exists),
       IF env.unshare_present /\ env.can_fork
       THEN Printed("launched", app.name)
       ELSE Printed("failed", app.name) >>

\* Mutant: every record found goes to the sandbox launcher.
LaunchApp_AlwaysSandbox(m, app_id, env) ==
    IF app_id \in DOMAIN m
    THEN << Printed("launching", m[app_id].name) >> \o
         LaunchSandboxedApp(m[app_id], env)
    ELSE << >>

\* launch_app(state, app_id)
\* Mutant: only an installed record reaches the sandbox launcher.
LaunchApp_InstalledOnly(m, app_id, env) ==
    IF app_id \in DOMAIN m
    THEN << Printed("launching", m[app_id].name) >> \o
         ( IF StartsWith(m[app_id].executable_path, BuiltinScheme)
           THEN HandleBuiltinApp(m[app_id].executable_path)
           ELSE IF m[app_id].installed
                THEN LaunchSandboxedApp(m[app_id], env)
                ELSE << >> )
    ELSE << >>

LaunchApp(m, app_id, env) ==
    IF app_id \in DOMAIN m
    THEN << Printed("launching", m[app_id].name) >> \o
         ( IF StartsWith(m[app_id].executable_path, BuiltinScheme)
           THEN HandleBuiltinApp(m[app_id].executable_path)
           ELSE LaunchSandboxedApp(m[app_id], env) )
    ELSE << >>

\* Every outcome of one dispatch: the isolation utility may or may not be
\* installed and the target may or may not exist when the spawn happens; a
\* fork is possible below the process limit.
Dispatch(m, app_id) ==
    { LaunchApp(m, app_id, SpawnEnv(unshare_present, children < MaxChildren, target_exists)) :
        unshare_present \in BOOLEAN, target_exists \in BOOLEAN }

\* Mutant: the dispatch waits for the child it spawned before it returns.
ChildrenAfter_Waits(fx) == children

\* The children alive after a callback: a spawn that returned Ok added one;
\* the Child handle is dropped, nothing waits for it.
ChildrenAfter(fx) ==
    children + Cardinality({ i \in 1..Len(fx) : fx[i].kind = "spawn" /\ fx[i].ok })

\* -------------------------------------------------------- navigation.rs

Tabs == 0..2

\* Mutant: left jumps to the first item.
LeftFocus_Home(focus) == 0

\* "left": if current_focus > 0 { set(current_focus - 1) }
LeftFocus(focus) == IF focus > 0 THEN focus - 1 ELSE focus

\* Mutant: the bound is off by one.
RightFocus_OffByOne(focus, max_apps) == IF focus < max_apps THEN focus + 1 ELSE focus

\* Mutant: right wraps around at the last item.
RightFocus_Wraps(focus, max_apps) == IF focus < max_apps - 1 THEN focus + 1 ELSE 0

\* "right": if current_focus < max_apps - 1 { set(current_focus + 1) }
RightFocus(focus, max_apps) == IF focus < max_apps - 1 THEN focus + 1 ELSE focus

DefaultRow ==
    [id |-> "", name |-> "", description |-> "", icon_path |-> "", category |-> ""]

\* Mutant: a default row stands in for a missing one.
RowData_OrDefault(view, focus) ==
    IF focus >= 0 /\ focus < Len(view) THEN Some(view[focus + 1]) ELSE Some(DefaultRow)

\* Mutant: the first row is read whatever the focus.
RowData_FirstRow(view, focus) ==
    IF focus >= 0 /\ focus < Len(view) THEN Some(view[1]) ELSE None

\* apps.row_data(focus as usize): a negative i32 becomes an index past any row.
RowData(view, focus) ==
    IF focus >= 0 /\ focus < Len(view) THEN Some(view[focus + 1]) ELSE None

\* The model and the focus property the handlers read for a tab.
ViewOf(tab) ==
    CASE tab = 0 -> ui_featured
      [] tab = 1 -> ui_installed
      [] tab = 2 -> ui_store

FocusOf(tab) ==
    CASE tab = 0 -> featured_focus
      [] tab = 1 -> apps_focus
      [] tab = 2 -> store_focus

Quiet(event) ==
    /\ last_event' = event
    /\ calls' = << >>
    /\ effects' = << >>
    /\ borrows' = << >>

NavigateUp ==
    /\ phase = "ready"
    /\ Quiet("up")
    /\ UNCHANGED << env_vars, phase, catalog_vars, ui_vars, nav_vars, children >>

NavigateDown ==
    /\ phase = "ready"
    /\ Quiet("down")
    /\ UNCHANGED << env_vars, phase, catalog_vars, ui_vars, nav_vars, children >>

\* Mutant: left moves the focus of every tab.
NavigateLeft_AllTabs ==
    /\ phase = "ready"
    /\ featured_focus' = LeftFocus(featured_focus)
    /\ apps_focus' = LeftFocus(apps_focus)
    /\ store_focus' = LeftFocus(store_focus)
    /\ Quiet("left")
    /\ UNCHANGED << env_vars, phase, catalog_vars, ui_vars, current_tab, children >>

NavigateLeft ==
    /\ phase = "ready"
    /\ featured_focus' = IF current_tab = 0 THEN LeftFocus(featured_focus) ELSE featured_focus
    /\ apps_focus' = IF current_tab = 1 THEN LeftFocus(apps_focus) ELSE apps_focus
    /\ store_focus' = IF current_tab = 2 THEN LeftFocus(store_focus) ELSE store_focus
    /\ Quiet("left")
    /\ UNCHANGED << env_vars, phase, catalog_vars, ui_vars, current_tab, children >>

NavigateRight ==
    /\ phase = "ready"
    /\ featured_focus' = IF current_tab = 0
                         THEN RightFocus(featured_focus, Len(ui_featured))
                         ELSE featured_focus
    /\ apps_focus' = IF current_tab = 1
                     THEN RightFocus(apps_focus, Len(ui_installed))
                     ELSE apps_focus
    /\ store_focus' = IF current_tab = 2
                      THEN RightFocus(store_focus, Len(ui_store))
                      ELSE store_focus
    /\ Quiet("right")
    /\ UNCHANGED << env_vars, phase, catalog_vars, ui_vars, current_tab, children >>

\* "select": the focused row's id goes to invoke_launch_app, whose callback
\* borrows the state and calls launch_app.
NavigateSelect ==
    /\ phase = "ready"
    /\ \E row \in { RowData(ViewOf(current_tab), FocusOf(current_tab)) } :
         /\ IF row # None
            THEN /\ calls' = << row[1].id >>
                 /\ \E fx \in Dispatch(apps, row[1].id) :
                      /\ effects' = fx
                      /\ children' = ChildrenAfter(fx)
            ELSE /\ calls' = << >>
                 /\ effects' = << >>
                 /\ children' = children
         /\ borrows' = SelectAccesses(row # None)
    /\ last_event' = "select"
    /\ UNCHANGED << env_vars, phase, catalog_vars, ui_vars, nav_vars >>

\* Identifiers a launch request may carry: a row of the tab on screen, or
\* one the catalog never held.
LaunchIds ==
    { ViewOf(current_tab)[i].id : i \in 1..Len(ViewOf(current_tab)) }
    \cup { "ghost" }

\* Mutant: a launch request puts the focus of the tab on screen back to 0.
OnLaunchApp_ResetsFocus ==
    /\ phase = "ready"
    /\ \E app_id \in LaunchIds :
         /\ calls' = << app_id >>
         /\ \E fx \in Dispatch(apps, app_id) :
              /\ effects' = fx
              /\ children' = ChildrenAfter(fx)
    /\ last_event' = "launch"
    /\ borrows' = LaunchCallbackAccesses
    /\ featured_focus' = IF current_tab = 0 THEN 0 ELSE featured_focus
    /\ apps_focus' = IF current_tab = 1 THEN 0 ELSE apps_focus
    /\ store_focus' = IF current_tab = 2 THEN 0 ELSE store_focus
    /\ UNCHANGED << env_vars, phase, catalog_vars, ui_vars, current_tab >>

\* The on_launch_app callback, invoked by the window (a click on an app).
OnLaunchApp ==
    /\ phase = "ready"
    /\ \E app_id \in LaunchIds :
         /\ calls' = << app_id >>
         /\ \E fx \in Dispatch(apps, app_id) :
              /\ effects' = fx
              /\ children' = ChildrenAfter(fx)
    /\ last_event' = "launch"
    /\ borrows' = LaunchCallbackAccesses
    /\ UNCHANGED << env_vars, phase, catalog_vars, ui_vars, nav_vars >>

\* The window sets current_tab; the focus properties are left alone.
SwitchTab ==
    /\ phase = "ready"
    /\ \E tab \in Tabs : current_tab' = tab
    /\ Quiet("switch")
    /\ UNCHANGED << env_vars, phase, catalog_vars, ui_vars,
                    featured_focus, apps_focus, store_focus, children >>

\* A sandboxed child ends on its own; no callback of the launcher runs.
ChildExit ==
    /\ children > 0
    /\ children' = children - 1
    /\ Quiet("exit")
    /\ UNCHANGED << env_vars, phase, catalog_vars, ui_vars, nav_vars >>

Next ==
    \/ Startup
    \/ RefreshStore
    \/ NavigateUp
    \/ NavigateDown
    \/ NavigateLeft
    \/ NavigateRight
    \/ NavigateSelect
    \/ OnLaunchApp
    \/ SwitchTab
    \/ ChildExit

Spec == Init /\ [][Next]_vars

\* ================================================================ claims

Records(m) == { m[k] : k \in DOMAIN m }

Ready == phase = "ready"

Min(a, b) == IF a < b THEN a ELSE b

\* C1: in every reachable state the installed view and the store view are
\* disjoint, together they hold exactly the records of the mapping (each
\* once), and a record is in the installed view iff its installed flag is set.
C1_ViewsPartitionCatalog ==
    /\ Range(installed_apps) \cap Range(store_apps) = {}
    /\ Range(installed_apps) \cup Range(store_apps) = Records(apps)
    /\ Len(installed_apps) + Len(store_apps) = Cardinality(DOMAIN apps)
    /\ \A k \in DOMAIN apps : (apps[k] \in Range(installed_apps)) <=> apps[k].installed
    /\ \A k \in DOMAIN apps : (apps[k] \in Range(store_apps)) <=> ~apps[k].installed

\* C1 witness: a refresh has run on a catalog holding scanned installed
\* records, so both views are populated.
C1_Witness ==
    /\ last_event = "refresh"
    /\ Len(store_apps) >= 2
    /\ Len(installed_apps) > Cardinality(BuiltinIds)

\* C2: after every recomputation of the views, featured is the first
\* min(6, |installed|) entries of installed in the same order, and computing
\* the views again from the unchanged mapping yields the same featured
\* sequence.
C2_FeaturedIsStablePrefix ==
    Ready =>
        /\ Len(featured_apps) = Min(6, Len(installed_apps))
        /\ \A i \in 1..Len(featured_apps) : featured_apps[i] = installed_apps[i]
        /\ UpdateAppLists(apps, seed).featured_apps = featured_apps

\* C2 witness: the cap cuts the view (more than six records are installed).
C2_Witness ==
    /\ Ready
    /\ Len(installed_apps) > 6
    /\ Len(featured_apps) = 6

\* C3: two runs holding the same mapping show the same featured sequence,
\* whatever order the map enumerates its records in: the featured view of
\* this run equals the one a run with any other hasher seed derives from the
\* same mapping.
C3_FeaturedIndependentOfEnumeration ==
    Ready =>
        \A s \in Seeds :
            FeaturedOf(InstalledOf(Values(apps, s))) = featured_apps

\* C4: after load every builtin identifier maps to its builtin definition,
\* whatever the scan found under that identifier.
C4_BuiltinsWinCollisions ==
    last_event = "startup" =>
        \A i \in 1..Len(BuiltinApps) :
            /\ BuiltinApps[i].id \in DOMAIN apps
            /\ apps[BuiltinApps[i].id] = BuiltinApps[i]

\* A subdirectory whose app.json exists, can be read and deserializes.
HoldsValidDescriptor(e) ==
    /\ e.is_dir
    /\ e.exists
    /\ e.readable
    /\ e.syntax_ok
    /\ RequiredFields \subseteq DOMAIN e.fields

\* Positions of the directory the scan can take a record from.
ValidPositions ==
    IF dir_readable
    THEN { i \in 1..Len(directory) : HoldsValidDescriptor(directory[i]) }
    ELSE {}

\* The record an app.json describes.
Described(e) ==
    MkApp(e.fields.id, e.fields.name, e.fields.description,
          IF "icon_path" \in DOMAIN e.fields THEN Some(e.fields.icon_path) ELSE None,
          e.fields.executable_path, e.fields.installed, e.fields.version,
          e.fields.category)

\* C4 witness: the scan found a record under a builtin identifier that
\* differs from the builtin definition, and load has run.
C4_Witness ==
    /\ last_event = "startup"
    /\ \E i \in ValidPositions :
         /\ directory[i].fields.id = "settings"
         /\ Described(directory[i]) # BuiltinDef("settings")

\* C5 as stated: after load the catalog's records are exactly the builtin
\* records plus the records of the subdirectories holding a valid descriptor.
C5_CatalogIsBuiltinsPlusScanned ==
    last_event = "startup" =>
        Records(apps) =
            Range(BuiltinApps) \cup { Described(directory[i]) : i \in ValidPositions }

\* C5 amended: load yields a catalog for every directory content (no entry
\* makes it fail); after it the catalog's keys are exactly
\* the builtin identifiers plus the identifiers of the valid descriptors; a
\* builtin identifier maps to its builtin definition and any other identifier
\* to the record of the last enumerated subdirectory with a valid descriptor
\* for it; invalid subdirectories and an unreadable directory add nothing.
C5_LoadToleratesFailures ==
    /\ phase = "boot" => BuiltinIds \subseteq DOMAIN LoadApps(dir_readable, directory)
    /\ last_event = "startup" =>
        /\ DOMAIN apps =
             BuiltinIds \cup { directory[i].fields.id : i \in ValidPositions }
        /\ \A k \in BuiltinIds : apps[k] = BuiltinDef(k)
        /\ \A k \in (DOMAIN apps) \ BuiltinIds :
             \E i \in ValidPositions :
                 /\ directory[i].fields.id = k
                 /\ apps[k] = Described(directory[i])
                 /\ \A j \in ValidPositions :
                      directory[j].fields.id = k => j <= i

\* C5 witness: the scenario of the specification, a valid "x" beside an
\* invalid subdirectory, loaded.
C5_Witness ==
    /\ last_event = "startup"
    /\ dir_readable
    /\ Len(directory) = 2
    /\ \E i, j \in 1..2 :
         /\ HoldsValidDescriptor(directory[i])
         /\ directory[i].fields.id = "x"
         /\ directory[j].is_dir
         /\ ~HoldsValidDescriptor(directory[j])
    /\ DOMAIN apps = BuiltinIds \cup {"x"}

\* Every tab whose view holds rows has its focus index on one of them.
FocusInBounds ==
    \A tab \in Tabs :
        Len(ViewOf(tab)) > 0 =>
            /\ 0 <= FocusOf(tab)
            /\ FocusOf(tab) <= Len(ViewOf(tab)) - 1

\* C6: starting from focus 0 on every tab, after every Left, Right and
\* SwitchTab event each tab with a non-empty view has its focus index within
\* [0, len(view) - 1].
C6_FocusInBoundsAfterNavigation ==
    last_event \in { "startup", "left", "right", "switch" } => FocusInBounds

\* C6 witness: Right events have walked the featured focus to the last row.
C6_Witness ==
    /\ last_event = "right"
    /\ current_tab = 0
    /\ Len(ui_featured) > 1
    /\ featured_focus = Len(ui_featured) - 1

\* C7: the views the window shows for the three tabs equal the views derived
\* from the current mapping, after a store refresh as after startup.
C7_WindowViewsFollowMapping ==
    Ready =>
        /\ ui_featured = AppsToSlintModel(UpdateAppLists(apps, seed).featured_apps)
        /\ ui_installed = AppsToSlintModel(UpdateAppLists(apps, seed).installed_apps)
        /\ ui_store = AppsToSlintModel(UpdateAppLists(apps, seed).store_apps)

\* C8: a Select on a tab whose view is empty calls the dispatcher not at all
\* and changes neither the catalog, the views, the window nor the navigation
\* state.
C8_SelectOnEmptyViewIsNoOp ==
    [][ (last_event' = "select" /\ ViewOf(current_tab) = << >>) =>
            /\ calls' = << >>
            /\ effects' = << >>
            /\ UNCHANGED << env_vars, phase, catalog_vars, ui_vars, nav_vars >> ]_vars

\* C8 witness: Select has run on the store tab while its view was empty.
C8_Witness ==
    /\ last_event = "select"
    /\ current_tab = 2
    /\ ui_store = << >>
    /\ calls = << >>

\* C9: Select calls the dispatcher exactly once, with the identifier of the
\* row at the focus index of the current tab's view, when that row exists,
\* and not at all when the focus index is outside the view.  (Select leaves
\* the tab, the focus and the views as they were, so they are read after it.)
C9_SelectDispatchesFocusedRow ==
    last_event = "select" =>
        IF 0 <= FocusOf(current_tab) /\ FocusOf(current_tab) < Len(ViewOf(current_tab))
        THEN calls = << ViewOf(current_tab)[FocusOf(current_tab) + 1].id >>
        ELSE calls = << >>

\* C9 witness: Select has dispatched the row of a focus index past the first.
C9_Witness ==
    /\ last_event = "select"
    /\ FocusOf(current_tab) > 0
    /\ Len(calls) = 1
    /\ calls[1] = ViewOf(current_tab)[FocusOf(current_tab) + 1].id

KnownTags == { "tv", "movies", "music", "photos", "settings", "app_store" }

Kinds(fx) == { fx[i].kind : i \in 1..Len(fx) }

\* C10: a dispatch of an identifier whose record has a builtin launch target
\* never attempts a spawn, and runs the builtin handler of the target's tag
\* (once, and no other handler).
C10_BuiltinTargetNeverSpawns ==
    \A c \in 1..Len(calls) :
        ( /\ calls[c] \in DOMAIN apps
          /\ apps[calls[c]].executable_path[1] = "builtin://" ) =>
            /\ "spawn" \notin Kinds(effects)
            /\ \A i \in 1..Len(effects) :
                 effects[i].kind = "handler" =>
                     effects[i].name = apps[calls[c]].executable_path[2]
            /\ apps[calls[c]].executable_path[2] \in KnownTags =>
                 Cardinality({ i \in 1..Len(effects) : effects[i].kind = "handler" }) = 1

\* C10 witness: "settings" was dispatched and the Settings handler ran.
C10_Witness ==
    /\ calls = << "settings" >>
    /\ apps["settings"].executable_path = << "builtin://", "settings" >>
    /\ \E i \in 1..Len(effects) :
         effects[i].kind = "handler" /\ effects[i].name = "settings"

SpawnsOf(fx) == { i \in 1..Len(fx) : fx[i].kind = "spawn" }

Dispatched == last_event \in { "select", "launch" } /\ calls # << >>

\* C11: a dispatch of a record whose external launch target does not exist on
\* disk ends in a spawn error: the spawn is not Ok, a failure is reported and
\* no success is.
C11_MissingTargetIsSpawnError ==
    \A i \in SpawnsOf(effects) :
        ~effects[i].target_exists =>
            /\ ~effects[i].ok
            /\ "failed" \in Kinds(effects)
            /\ "launched" \notin Kinds(effects)

\* C12: a dispatch of an identifier absent from the catalog runs no handler,
\* attempts no spawn, and emits an "unknown app" diagnostic.
C12_UnknownIdIsReported ==
    \A c \in 1..Len(calls) :
        calls[c] \notin DOMAIN apps =>
            /\ "handler" \notin Kinds(effects)
            /\ "spawn" \notin Kinds(effects)
            /\ "unknown_app" \in Kinds(effects)

\* C13: a dispatch, whatever its outcome, leaves the catalog mapping, the
\* three derived views (the state's and the window's), the current tab and
\* every focus index unchanged.
C13_DispatchLeavesStateUnchanged ==
    [][ last_event' \in { "select", "launch" } =>
            UNCHANGED << phase, catalog_vars, ui_vars, nav_vars >> ]_vars

C13_Witness ==
    /\ Dispatched
    /\ \E i \in SpawnsOf(effects) : ~effects[i].ok /\ effects[i].unshare_present
    /\ "failed" \in Kinds(effects)
    /\ store_focus > 0

\* C14: the launcher has no terminal state and stays responsive. In every
\* state after startup, whatever the last event was and whether or not a
\* spawned child is still running, every input event is accepted; a dispatch
\* attempts at most one spawn (no retry), and it has returned while the child
\* it created is still running (no wait).
C14_StaysResponsive ==
    phase = "ready" =>
        /\ ENABLED NavigateUp
        /\ ENABLED NavigateDown
        /\ ENABLED NavigateLeft
        /\ ENABLED NavigateRight
        /\ ENABLED NavigateSelect
        /\ ENABLED OnLaunchApp
        /\ ENABLED SwitchTab
        /\ Cardinality(SpawnsOf(effects)) <= 1
        /\ ( Dispatched /\ \E i \in SpawnsOf(effects) : effects[i].ok ) =>
               children > 0

\* A child is running and the launcher has just taken a launch request for
\* an identifier it does not know.
C14_Witness ==
    /\ children > 0
    /\ last_event = "launch"
    /\ calls = << "ghost" >>

Max(a, b) == IF a > b THEN a ELSE b

\* C15: Left sets the focus index of the current tab to max(0, focus - 1).
C15_LeftIsClampedDecrement ==
    [][ last_event' = "left" =>
            FocusOf(current_tab)' = Max(0, FocusOf(current_tab) - 1) ]_vars

C15_Witness ==
    /\ last_event = "left"
    /\ current_tab = 1
    /\ apps_focus > 0

\* C16: Right sets the focus index of the current tab to
\* min(len(view) - 1, focus + 1), and changes nothing when the view of the
\* current tab is empty.
C16_RightIsClampedIncrement ==
    [][ last_event' = "right" =>
            IF ViewOf(current_tab) = << >>
            THEN UNCHANGED nav_vars
            ELSE FocusOf(current_tab)' =
                     Min(Len(ViewOf(current_tab)) - 1, FocusOf(current_tab) + 1) ]_vars

C16_Witness ==
    /\ last_event = "right"
    /\ current_tab = 2
    /\ store_focus > 0
    /\ store_focus = Len(ui_store) - 1

BuiltinRoute == { "handler", "unknown_builtin" }

\* C18: a dispatch of a record whose launch target has the builtin scheme
\* and an unrecognized tag runs no builtin handler and attempts no spawn; it
\* prints a diagnostic naming the target, and the launcher goes on.
C18_UnknownTagIsDiagnosed ==
    \A c \in 1..Len(calls) :
        ( /\ calls[c] \in DOMAIN apps
          /\ StartsWith(apps[calls[c]].executable_path, BuiltinScheme)
          /\ apps[calls[c]].executable_path[2] \notin KnownTags ) =>
            /\ "handler" \notin Kinds(effects)
            /\ "spawn" \notin Kinds(effects)
            /\ \E i \in 1..Len(effects) :
                 /\ effects[i].kind = "unknown_builtin"
                 /\ effects[i].path = apps[calls[c]].executable_path
            /\ phase = "ready"

C18_Witness ==
    /\ last_event = "select"
    /\ calls = << "x" >>
    /\ apps["x"].executable_path = BuiltinPath("bogus")
    /\ "unknown_builtin" \in Kinds(effects)

\* C19: for every identifier in the catalog a dispatch takes exactly one of
\* the two routes, chosen by the launch target alone: the builtin route when
\* the target starts with the reserved scheme, the sandbox launcher
\* otherwise, whatever the installed flag says.
C19_RoutingByTargetOnly ==
    \A c \in 1..Len(calls) :
        calls[c] \in DOMAIN apps =>
            IF StartsWith(apps[calls[c]].executable_path, BuiltinScheme)
            THEN /\ Kinds(effects) \cap BuiltinRoute # {}
                 /\ "spawn" \notin Kinds(effects)
            ELSE /\ Kinds(effects) \cap BuiltinRoute = {}
                 /\ Cardinality(SpawnsOf(effects)) = 1

\* Select on the Store tab over a record that is not installed and has an
\* external path.
C19_Witness ==
    /\ last_event = "select"
    /\ current_tab = 2
    /\ calls = << "spotify" >>
    /\ ~apps["spotify"].installed
    /\ apps["spotify"].executable_path[1] # BuiltinScheme
    /\ "spawn" \in Kinds(effects)

\* C20: when the namespace-isolation utility is absent, a dispatch that takes
\* the sandbox route fails with a spawn error: no child is created, the
\* failure is reported and no success is, and the launcher goes on.
C20_NoUtilityNoChild ==
    [][ ( /\ last_event' \in { "select", "launch" }
          /\ \E i \in SpawnsOf(effects') : ~effects'[i].unshare_present ) =>
            /\ \A i \in SpawnsOf(effects') : ~effects'[i].ok
            /\ children' = children
            /\ "failed" \in Kinds(effects')
            /\ "launched" \notin Kinds(effects')
            /\ phase' = "ready" ]_vars

C20_Witness ==
    /\ Dispatched
    /\ children = 0
    /\ \E i \in SpawnsOf(effects) :
         ~effects[i].unshare_present /\ effects[i].target_exists
    /\ "failed" \in Kinds(effects)

MockDef(id) == CHOOSE a \in Range(MockApps) : a.id = id

\* C22: a store refresh upserts by identifier. After it the mapping holds
\* the refresh's record, not installed, under each refreshed identifier,
\* whatever was stored there before, and every other key has the record it
\* had.
C22_RefreshUpserts ==
    [][ last_event' = "refresh" =>
            /\ DOMAIN apps' = DOMAIN apps \cup MockIds
            /\ \A k \in MockIds : apps'[k] = MockDef(k) /\ ~apps'[k].installed
            /\ \A k \in DOMAIN apps \ MockIds : apps'[k] = apps[k] ]_vars

\* The directory held an installed spotify; the refresh has replaced its
\* record and kept the scanned record of another identifier.
C22_Witness ==
    /\ last_event = "refresh"
    /\ \E i \in 1..Len(directory) :
         /\ HoldsValidDescriptor(directory[i])
         /\ directory[i].fields.id = "spotify"
         /\ directory[i].fields.installed
    /\ apps["spotify"] = MockDef("spotify")
    /\ "x" \in DOMAIN apps
    /\ apps["x"].name = "Scanned"

\* C23: after load and after any number of store refreshes, each of the six
\* builtin identifiers is in the catalog with its builtin definition and
\* installed set; so the installed view has at least 6 entries and the
\* featured view exactly 6.
C23_BuiltinsAlwaysPresent ==
    Ready =>
        /\ \A id \in BuiltinIds :
             /\ id \in DOMAIN apps
             /\ apps[id] = BuiltinDef(id)
             /\ apps[id].installed
        /\ Cardinality(BuiltinIds) = 6
        /\ Len(installed_apps) >= 6
        /\ Len(featured_apps) = 6

\* A refresh has run over a catalog loaded from a directory that holds a
\* descriptor under a builtin identifier and an installed app of its own.
C23_Witness ==
    /\ last_event = "refresh"
    /\ \E i \in 1..Len(directory) :
         /\ HoldsValidDescriptor(directory[i])
         /\ directory[i].fields.id \in BuiltinIds
    /\ Len(installed_apps) > 6

\* C24: no step removes a key of the catalog, and every record is stored
\* under its own identifier; so the identifier of every row of every view
\* the window shows, a view not replaced since startup included, is a key of
\* the catalog, and a dispatch issued by Select never finds its identifier
\* unknown.
C24_CatalogOnlyGrows ==
    [][ /\ DOMAIN apps \subseteq DOMAIN apps'
        /\ \A k \in DOMAIN apps' : apps'[k].id = k
        /\ \A tab \in Tabs : \A i \in 1..Len(ViewOf(tab)') :
             ViewOf(tab)'[i].id \in DOMAIN apps'
        /\ last_event' = "select" =>
              \A c \in 1..Len(calls') :
                  /\ calls'[c] \in DOMAIN apps'
                  /\ "launching" \in Kinds(effects') ]_vars

\* Select on the installed tab, whose view still shows the spotify record
\* that a refresh has since replaced by one that is not installed.
C24_Witness ==
    /\ last_event = "select"
    /\ current_tab = 1
    /\ calls = << "spotify" >>
    /\ ~apps["spotify"].installed
    /\ "launching" \in Kinds(effects)

NoDuplicates(seq) == Cardinality(Range(seq)) = Len(seq)

\* C25: a store refresh is idempotent. A refresh that follows a refresh
\* leaves the catalog mapping as it is, and the installed and store views
\* with the same records, the same lengths and no record twice.
C25_RefreshIsIdempotent ==
    [][ ( last_event = "refresh" /\ last_event' = "refresh" ) =>
            /\ apps' = apps
            /\ Range(installed_apps') = Range(installed_apps)
            /\ Len(installed_apps') = Len(installed_apps)
            /\ NoDuplicates(installed_apps')
            /\ Range(store_apps') = Range(store_apps)
            /\ Len(store_apps') = Len(store_apps)
            /\ NoDuplicates(store_apps')
            /\ Range(ui_store') = Range(ui_store)
            /\ Len(ui_store') = Len(ui_store) ]_vars

\* After a refresh over a full directory: both refreshed records are in the
\* store view, once each, next to a scanned one.
C25_Witness ==
    /\ last_event = "refresh"
    /\ Len(directory) = MaxDirs
    /\ Range(MockApps) \subseteq Range(store_apps)
    /\ Len(store_apps) > Len(MockApps)
    /\ NoDuplicates(store_apps)

\* The state cell's borrow flag: shared borrows out, a mutable borrow out,
\* and whether an access found the cell already borrowed against it.
Cell(readers, writer, conflict) ==
    [readers |-> readers, writer |-> writer, conflict |-> conflict]

FreeCell == Cell(0, FALSE, FALSE)

CellStep(cell, access) ==
    CASE access = "borrow" ->
            IF cell.writer THEN Cell(cell.readers, cell.writer, TRUE)
            ELSE Cell(cell.readers + 1, cell.writer, cell.conflict)
      [] access = "borrow_mut" ->
            IF cell.writer \/ cell.readers > 0
            THEN Cell(cell.readers, cell.writer, TRUE)
            ELSE Cell(cell.readers, TRUE, cell.conflict)
      [] access = "drop" -> Cell(cell.readers - 1, cell.writer, cell.conflict)
      [] access = "drop_mut" -> Cell(cell.readers, FALSE, cell.conflict)

RECURSIVE CellAfter(_, _)
CellAfter(cell, accesses) ==
    IF accesses = << >> \/ cell.conflict THEN cell
    ELSE CellAfter(CellStep(cell, Head(accesses)), Tail(accesses))

\* C26: the accesses a callback makes to the shared state cell never
\* conflict. The mutable borrow of the store refresh meets no other borrow,
\* the shared borrow of the launch callback nested in a Select is taken with
\* no mutable borrow out, and every callback returns with the cell free, so
\* the next event finds it free.
C26_BorrowsNeverConflict ==
    /\ ~CellAfter(FreeCell, borrows).conflict
    /\ CellAfter(FreeCell, borrows) = FreeCell
    /\ \A n \in 1..Len(borrows) :
         borrows[n] = "borrow" => ~CellAfter(FreeCell, SubSeq(borrows, 1, n - 1)).writer

\* A Select has run the launch callback, after a refresh had held the cell
\* mutably.
C26_Witness ==
    /\ last_event = "select"
    /\ calls # << >>
    /\ borrows = << "borrow", "drop" >>
    /\ MockIds \subseteq DOMAIN apps

=============================================================================
